---------------------------- MODULE Spec2Model ----------------------------
(***************************************************************************)
(* A model of instatimefixer.py: the in-place patcher of the timestamps of *)
(* an Insta360 video file.                                                 *)
(*                                                                         *)
(* A file is a sequence of bytes (0..255), addressed from offset 0 as the  *)
(* code addresses it.  A timestamp string is a sequence of 14 decimal      *)
(* digits.  Python integers are unbounded, and the values the code handles *)
(* (14-digit timestamps, epoch milliseconds, seconds since 1904) do not    *)
(* fit a 32-bit integer, so an integer of the program is a sequence of     *)
(* base-128 digits, least significant first, without leading zero digit    *)
(* (the empty sequence is 0); a signed integer is [neg, mag].              *)
(***************************************************************************)
EXTENDS Integers, Sequences, FiniteSets, TLC

VARIABLES
    file,        \* the content of the file being patched
    file0,       \* its content when the current patch_file call began
    wrong_str,   \* patch_file's wrong_str
    correct_str, \* patch_file's correct_str
    dry_run,     \* patch_file's dry_run
    pc,          \* "call" | "write" | "returned" | "reported"
    patches,     \* patch_file's deduplicated list of patches
    printed,     \* the <<type, offset>> lines patch_file printed
    idx,         \* the write loop's position in patches (1-based)
    ok,          \* patch_file's ok
    wrote,       \* per patch: "pending" | "written" | "mismatch"
    result,      \* what patch_file returned or raised
    message,     \* the outcome line patch_file printed last
    report,      \* what main printed for the file
    run,         \* the number of the invocation of the tool on the file
    tampered,    \* somebody else changed the file during the write loop
    s_data,      \* _find_pattern: the file it scans
    s_pattern,   \* _find_pattern: pattern
    s_chunk,     \* _find_pattern: the chunk size it reads with
    file_pos,    \* _find_pattern: file_pos
    prev_tail,   \* _find_pattern: prev_tail
    offsets,     \* _find_pattern: offsets
    s_pc         \* _find_pattern: "idle" | "scan" | "done"

vars == <<file, file0, wrong_str, correct_str, dry_run, pc, patches, printed,
          idx, ok, wrote, result, message, report, run, tampered,
          s_data, s_pattern, s_chunk, file_pos, prev_tail, offsets, s_pc>>

patchVars == <<file, file0, wrong_str, correct_str, dry_run, pc, patches,
               printed, idx, ok, wrote, result, message, report, run, tampered>>

scanVars == <<s_data, s_pattern, s_chunk, file_pos, prev_tail, offsets, s_pc>>

Min(a, b) == IF a < b THEN a ELSE b

Max(a, b) == IF a > b THEN a ELSE b

(***************************************************************************)
(* Unbounded integers.                                                     *)
(***************************************************************************)
RECURSIVE Norm(_)
Norm(a) ==
    IF a = <<>> THEN a
    ELSE IF a[Len(a)] = 0 THEN Norm(SubSeq(a, 1, Len(a) - 1)) ELSE a

RECURSIVE NatToBig(_)
NatToBig(n) == IF n = 0 THEN <<>> ELSE <<n % 128>> \o NatToBig(n \div 128)

Rest(a) == IF a = <<>> THEN a ELSE Tail(a)

Low(a) == IF a = <<>> THEN 0 ELSE Head(a)

RECURSIVE AddCarry(_, _, _)
AddCarry(a, b, c) ==
    IF a = <<>> /\ b = <<>> THEN NatToBig(c)
    ELSE LET s == Low(a) + Low(b) + c
         IN  <<s % 128>> \o AddCarry(Rest(a), Rest(b), s \div 128)

BigAdd(a, b) == AddCarry(a, b, 0)

\* a - b for a >= b
RECURSIVE SubBorrow(_, _, _)
SubBorrow(a, b, c) ==
    IF a = <<>> THEN <<>>
    ELSE LET s == Low(a) - Low(b) - c
         IN  <<s % 128>> \o SubBorrow(Rest(a), Rest(b), IF s < 0 THEN 1 ELSE 0)

BigSub(a, b) == Norm(SubBorrow(a, b, 0))

\* -1, 0, 1 as a < b, a = b, a > b
RECURSIVE BigCmp(_, _)
BigCmp(a, b) ==
    IF Len(a) # Len(b) THEN (IF Len(a) < Len(b) THEN -1 ELSE 1)
    ELSE IF a = <<>> THEN 0
    ELSE IF a[Len(a)] # b[Len(b)] THEN (IF a[Len(a)] < b[Len(b)] THEN -1 ELSE 1)
    ELSE BigCmp(SubSeq(a, 1, Len(a) - 1), SubSeq(b, 1, Len(b) - 1))

BigLe(a, b) == BigCmp(a, b) <= 0

BigLt(a, b) == BigCmp(a, b) < 0

\* a * m + c for a small m
RECURSIVE MulSmall(_, _, _)
MulSmall(a, m, c) ==
    IF a = <<>> THEN NatToBig(c)
    ELSE LET s == Head(a) * m + c
         IN  <<s % 128>> \o MulSmall(Tail(a), m, s \div 128)

BigMul(a, m) == Norm(MulSmall(a, m, 0))

\* [q, r]: a = q * d + r for a small d (q not normalised)
RECURSIVE DivSmall(_, _)
DivSmall(a, d) ==
    IF a = <<>> THEN [q |-> <<>>, r |-> 0]
    ELSE LET hi  == DivSmall(Tail(a), d)
             cur == hi.r * 128 + Head(a)
         IN  [q |-> <<cur \div d>> \o hi.q, r |-> cur % d]

\* a number written in digits of the given base, most significant first
RECURSIVE FromDigits(_, _)
FromDigits(ds, base) ==
    IF ds = <<>> THEN <<>>
    ELSE Norm(MulSmall(FromDigits(SubSeq(ds, 1, Len(ds) - 1), base), base,
                       ds[Len(ds)]))

\* the n low digits of a in the given base, most significant first
RECURSIVE ToDigits(_, _, _)
ToDigits(a, base, n) ==
    IF n = 0 THEN <<>>
    ELSE LET d == DivSmall(a, base)
         IN  ToDigits(Norm(d.q), base, n - 1) \o <<d.r>>

Signed(neg, mag) == [neg |-> neg /\ mag # <<>>, mag |-> mag]

\* a - b
BigDiff(a, b) ==
    IF BigLe(b, a) THEN Signed(FALSE, BigSub(a, b)) ELSE Signed(TRUE, BigSub(b, a))

\* a + d for a signed d
BigShift(a, d) ==
    IF d.neg THEN BigDiff(a, d.mag) ELSE Signed(FALSE, BigAdd(a, d.mag))


\* the value of a decimal literal, given by its digits
Dec(ds) == FromDigits(ds, 10)

\* int(s) of a short string of decimal digits, as a small integer
RECURSIVE DecInt(_)
DecInt(ds) ==
    IF ds = <<>> THEN 0 ELSE DecInt(SubSeq(ds, 1, Len(ds) - 1)) * 10 + ds[Len(ds)]

(***************************************************************************)
(* Protobuf varint helpers.                                                *)
(***************************************************************************)
\* every digit but the last gets the continuation bit
RECURSIVE _encode_varint(_)
_encode_varint(value) ==
    IF Len(value) <= 1 THEN <<Low(value)>>
    ELSE <<Head(value) + 128>> \o _encode_varint(Tail(value))

\* the loop of _decode_varint; data[pos] past the end raises IndexError
RECURSIVE DecodeLoop(_, _, _)
DecodeLoop(data, pos, groups) ==
    IF pos >= Len(data) THEN [err |-> TRUE, value |-> <<>>, pos |-> pos]
    ELSE LET byte == data[pos + 1]
             acc  == Append(groups, byte % 128)
         IN  IF byte < 128
             THEN [err |-> FALSE, value |-> Norm(acc), pos |-> pos + 1]
             ELSE DecodeLoop(data, pos + 1, acc)

_decode_varint(data, pos) == DecodeLoop(data, pos, <<>>)

(***************************************************************************)
(* Timestamp helpers.  A timestamp string is 14 decimal digits.            *)
(***************************************************************************)
IsLeap(y) == y % 4 = 0 /\ (y % 100 # 0 \/ y % 400 = 0)

DaysInMonth(y, m) ==
    CASE m \in {4, 6, 9, 11} -> 30
      [] m = 2 -> IF IsLeap(y) THEN 29 ELSE 28
      [] OTHER -> 31

RECURSIVE DaysBeforeMonth(_, _)
DaysBeforeMonth(y, m) ==
    IF m = 1 THEN 0 ELSE DaysBeforeMonth(y, m - 1) + DaysInMonth(y, m - 1)

\* the proleptic Gregorian ordinal of a date, day 1 being 0001-01-01
Ordinal(y, m, d) ==
    (y - 1) * 365 + (y - 1) \div 4 - (y - 1) \div 100 + (y - 1) \div 400
        + DaysBeforeMonth(y, m) + d

\* datetime(...) raises ValueError for a date or a time that does not exist;
\* otherwise the seconds from 1970-01-01T00:00:00Z to it (years from 1970 on)
_parse_ts(ts_str) ==
    LET y  == DecInt(SubSeq(ts_str, 1, 4))
        mo == DecInt(SubSeq(ts_str, 5, 6))
        d  == DecInt(SubSeq(ts_str, 7, 8))
        h  == DecInt(SubSeq(ts_str, 9, 10))
        mi == DecInt(SubSeq(ts_str, 11, 12))
        s  == DecInt(SubSeq(ts_str, 13, 14))
    IN  IF \/ y < 1 \/ mo < 1 \/ mo > 12 \/ d < 1 \/ d > DaysInMonth(y, mo)
           \/ h > 23 \/ mi > 59 \/ s > 59
        THEN [err |-> TRUE, epoch |-> <<>>]
        ELSE [err |-> FALSE,
              epoch |-> BigAdd(BigMul(NatToBig(Ordinal(y, mo, d) - Ordinal(1970, 1, 1)),
                                      86400),
                               NatToBig(h * 3600 + mi * 60 + s))]

\* validate_timestamp accepts the string (its length and digits are the type's)
validate_timestamp(ts_str) ==
    LET y  == DecInt(SubSeq(ts_str, 1, 4))
        mo == DecInt(SubSeq(ts_str, 5, 6))
        d  == DecInt(SubSeq(ts_str, 7, 8))
        h  == DecInt(SubSeq(ts_str, 9, 10))
        mi == DecInt(SubSeq(ts_str, 11, 12))
        s  == DecInt(SubSeq(ts_str, 13, 14))
    IN  /\ Len(ts_str) = 14
        /\ 2000 <= y /\ y <= 2099
        /\ 1 <= mo /\ mo <= 12
        /\ 1 <= d /\ d <= 31
        /\ h <= 23 /\ mi <= 59 /\ s <= 59

(***************************************************************************)
(* Binary search.                                                          *)
(***************************************************************************)
\* Read files in 64 MB chunks
_CHUNK_SIZE == 64 * 1024 * 1024

\* f.seek(off); f.read(n)
ReadAt(data, off, n) == SubSeq(data, off + 1, Min(off + n, Len(data)))

\* bytes.find(pattern, pos): the first index >= pos of an occurrence, or -1
BytesFind(data, pattern, pos) ==
    LET found == { i \in pos..(Len(data) - Len(pattern)) :
                     /\ data[i + 1] = pattern[1]
                     /\ SubSeq(data, i + 1, i + Len(pattern)) = pattern }
    IN  IF found = {} THEN -1 ELSE CHOOSE i \in found : \A j \in found : i <= j

\* the inner loop of _find_pattern: search one buffer from pos on
RECURSIVE SearchBuffer(_, _, _, _)
SearchBuffer(search_data, pattern, search_base, pos) ==
    LET i == BytesFind(search_data, pattern, pos)
    IN  IF i = -1 THEN <<>>
        ELSE <<search_base + i>> \o SearchBuffer(search_data, pattern, search_base, i + 1)

\* a scanner with no overlap kept between chunks
NoTail(chunk, overlap) == <<>>

\* what one chunk keeps for the next one
NextTail(chunk, overlap) ==
    IF Len(chunk) >= overlap
    THEN SubSeq(chunk, Len(chunk) - overlap + 1, Len(chunk))
    ELSE chunk

\* one pass of the outer loop of _find_pattern over a non-empty chunk
ScanChunk(st, data, pattern, size) ==
    LET overlap     == Len(pattern)
        chunk       == ReadAt(data, st.file_pos, size)
        search_data == st.prev_tail \o chunk
        search_base == st.file_pos - Len(st.prev_tail)
    IN  [file_pos  |-> st.file_pos + Len(chunk),
         prev_tail |-> NextTail(chunk, overlap),
         offsets   |-> st.offsets \o SearchBuffer(search_data, pattern, search_base, 0)]

RECURSIVE ScanLoop(_, _, _, _)
ScanLoop(st, data, pattern, size) ==
    IF ReadAt(data, st.file_pos, size) = <<>> THEN st.offsets
    ELSE ScanLoop(ScanChunk(st, data, pattern, size), data, pattern, size)

ScanStart == [file_pos |-> 0, prev_tail |-> <<>>, offsets |-> <<>>]

_find_pattern(data, pattern) == ScanLoop(ScanStart, data, pattern, _CHUNK_SIZE)

(***************************************************************************)
(* Patch logic: the five locators of patch_file.  A patch is               *)
(* [type, offset, old, new]; a locator gives [err, patches], err being     *)
(* "none" or what stopped patch_file.                                      *)
(***************************************************************************)
\* Seconds between 1904-01-01 and 1970-01-01 (MP4 epoch offset)
_MP4_EPOCH_OFFSET == Dec(<<2, 0, 8, 2, 8, 4, 4, 8, 0, 0>>)

Patch(type, offset, old, new) ==
    [type |-> type, offset |-> offset, old |-> old, new |-> new]

Found(ps) == [err |-> "none", patches |-> ps]

Raised(e) == [err |-> e, patches |-> <<>>]

\* a text of decimal digits in ASCII and in UTF-16LE; "_" is byte 95
Ascii(ds) == [i \in 1..Len(ds) |-> 48 + ds[i]]

Utf16le(ds) == [i \in 1..2 * Len(ds) |-> IF i % 2 = 1 THEN 48 + ds[(i + 1) \div 2] ELSE 0]

\* struct.unpack_from(">I", buf, off)[0], for a buffer that holds the field
UnpackU32(buf, off) == FromDigits(SubSeq(buf, off + 1, off + 4), 256)

\* struct.pack(">I", v) raises struct.error unless 0 <= v <= 0xFFFFFFFF
FitsU32(v) == ~v.neg /\ BigLt(v.mag, FromDigits(<<1, 0, 0, 0, 0>>, 256))

PackU32(v) == ToDigits(v.mag, 256, 4)

\* 2000-01-01T00:00:00Z and 2100-01-01T00:00:00Z in seconds since 1970
Epoch2000 == _parse_ts(<<2, 0, 0, 0, 0, 1, 0, 1, 0, 0, 0, 0, 0, 0>>).epoch

Epoch2100 == _parse_ts(<<2, 1, 0, 0, 0, 1, 0, 1, 0, 0, 0, 0, 0, 0>>).epoch

\* 2000 <= datetime.fromtimestamp(ct - _MP4_EPOCH_OFFSET, tz=utc).year <= 2099
\* (fromtimestamp does not raise for an unsigned 32-bit ct: the year is 1904 or later)
YearInRange(ct) ==
    LET unix == BigDiff(ct, _MP4_EPOCH_OFFSET)
    IN  ~unix.neg /\ BigLe(Epoch2000, unix.mag) /\ BigLt(unix.mag, Epoch2100)

BoxTypes ==
    << [tag |-> <<109, 118, 104, 100>>,
        creation |-> "mvhd.creation", modification |-> "mvhd.modification"],
       [tag |-> <<116, 107, 104, 100>>,
        creation |-> "tkhd.creation", modification |-> "tkhd.modification"],
       [tag |-> <<109, 100, 104, 100>>,
        creation |-> "mdhd.creation", modification |-> "mdhd.modification"] >>

PackError == "struct.error: 'I' format requires 0 <= number <= 4294967295"

UnpackError == "struct.error: unpack_from requires a buffer"

\* the body of the loop over the hits of one box type
Mp4Atom(data, offset, box, delta_sec) ==
    LET buf == ReadAt(data, offset + 4, 20)
    IN  IF buf = <<>> THEN Raised("IndexError: index out of range")
        ELSE IF buf[1] # 0 THEN Found(<<>>)
        ELSE IF Len(buf) < 8 THEN Raised(UnpackError)
        ELSE IF ~YearInRange(UnpackU32(buf, 4)) THEN Found(<<>>)
        ELSE LET ct    == UnpackU32(buf, 4)
                 c_new == BigShift(ct, delta_sec)
             IN  IF ~FitsU32(c_new) THEN Raised(PackError)
                 ELSE IF Len(buf) < 12 THEN Raised(UnpackError)
                 ELSE LET mt    == UnpackU32(buf, 8)
                          m_new == BigShift(mt, delta_sec)
                      IN  IF ~FitsU32(m_new) THEN Raised(PackError)
                          ELSE Found(<< Patch(box.creation, offset + 8,
                                              SubSeq(buf, 5, 8), PackU32(c_new)),
                                        Patch(box.modification, offset + 12,
                                              SubSeq(buf, 9, 12), PackU32(m_new)) >>)

\* a locator's loop over its hits: the first exception ends it
RECURSIVE Mp4Hits(_, _, _, _, _)
Mp4Hits(data, hits, box, delta_sec, acc) ==
    IF hits = <<>> \/ acc.err # "none" THEN acc
    ELSE LET r == Mp4Atom(data, Head(hits), box, delta_sec)
         IN  Mp4Hits(data, Tail(hits), box, delta_sec,
                     [err |-> r.err, patches |-> acc.patches \o r.patches])

RECURSIVE Mp4Boxes(_, _, _, _)
Mp4Boxes(data, boxes, delta_sec, acc) ==
    IF boxes = <<>> \/ acc.err # "none" THEN acc
    ELSE Mp4Boxes(data, Tail(boxes), delta_sec,
                  Mp4Hits(data, _find_pattern(data, Head(boxes).tag), Head(boxes),
                          delta_sec, acc))

Mp4Locator(data, delta_sec) == Mp4Boxes(data, BoxTypes, delta_sec, Found(<<>>))

\* a locator that takes the offset of the tag for that of the value
ProtobufOffsetOfTag(offset) == offset

\* Protobuf creation_time (field 7, tag 0x38)
ProtobufOffset(offset) == offset + 1

ProtobufLocator(data, wrong_varint, correct_varint) ==
    LET hits == _find_pattern(data, <<56>> \o wrong_varint)
    IN  [i \in 1..Len(hits) |->
            Patch("protobuf creation_time", ProtobufOffset(hits[i]),
                  wrong_varint, correct_varint)]

\* first_gps_timestamp (field 36, tag 0xa0 0x02)
GpsMin == Dec(<<1, 5, 7, 7, 8, 3, 6, 8, 0, 0, 0, 0, 0>>)

GpsMax == Dec(<<1, 8, 9, 3, 4, 5, 6, 0, 0, 0, 0, 0, 0>>)

DayMs == Dec(<<8, 6, 4, 0, 0, 0, 0, 0>>)

\* a locator without the 24-hour window
GpsNeverTooFar(val, wrong_epoch_ms) == FALSE

\* abs(val - wrong_epoch_ms) >= 86_400_000
GpsTooFar(val, wrong_epoch_ms) == BigLe(DayMs, BigDiff(val, wrong_epoch_ms).mag)

\* a locator that keeps a value whatever the length of its new encoding
GpsLengthAny(old_v, new_v) == TRUE

GpsLengthOk(old_v, new_v) == Len(old_v) = Len(new_v)

GpsHit(data, offset, wrong_epoch_ms, delta_ms) ==
    LET buf == ReadAt(data, offset + 2, 10)
        dec == _decode_varint(buf, 0)
    IN  IF dec.err THEN Found(<<>>)
        ELSE IF ~(BigLe(GpsMin, dec.value) /\ BigLe(dec.value, GpsMax)) THEN Found(<<>>)
        ELSE IF GpsTooFar(dec.value, wrong_epoch_ms) THEN Found(<<>>)
        ELSE LET old_v   == SubSeq(buf, 1, dec.pos)
                 shifted == BigShift(dec.value, delta_ms)
             IN  IF shifted.neg
                 THEN Raised("ValueError: bytes must be in range(0, 256)")
                 ELSE IF GpsLengthOk(old_v, _encode_varint(shifted.mag))
                      THEN Found(<<Patch("first_gps_timestamp", offset + 2, old_v,
                                         _encode_varint(shifted.mag))>>)
                      ELSE Found(<<>>)

RECURSIVE GpsHits(_, _, _, _, _)
GpsHits(data, hits, wrong_epoch_ms, delta_ms, acc) ==
    IF hits = <<>> \/ acc.err # "none" THEN acc
    ELSE LET r == GpsHit(data, Head(hits), wrong_epoch_ms, delta_ms)
         IN  GpsHits(data, Tail(hits), wrong_epoch_ms, delta_ms,
                     [err |-> r.err, patches |-> acc.patches \o r.patches])

GpsLocator(data, wrong_epoch_ms, delta_ms) ==
    GpsHits(data, _find_pattern(data, <<160, 2>>), wrong_epoch_ms, delta_ms, Found(<<>>))

\* ASCII date/time in embedded file paths
AsciiLocator(data, wrong_str_, correct_str_) ==
    LET wrong_ascii   == Ascii(SubSeq(wrong_str_, 1, 8)) \o <<95>>
                             \o Ascii(SubSeq(wrong_str_, 9, 14))
        correct_ascii == Ascii(SubSeq(correct_str_, 1, 8)) \o <<95>>
                             \o Ascii(SubSeq(correct_str_, 9, 14))
        hits          == _find_pattern(data, wrong_ascii)
    IN  [i \in 1..Len(hits) |->
            Patch("ASCII filename date", hits[i], wrong_ascii, correct_ascii)]

\* UTF-16LE date/time in inst box header filename
MarkerVID == <<86, 0, 73, 0, 68, 0>>

MarkerLRV == <<76, 0, 82, 0, 86, 0>>

Utf16Hit(data, offset, wrong_str_, correct_str_) ==
    LET ctx              == ReadAt(data, Max(0, offset - 20), 60)
        time_offset      == offset + 18
        wrong_time_u16   == Utf16le(SubSeq(wrong_str_, 9, 14))
        correct_time_u16 == Utf16le(SubSeq(correct_str_, 9, 14))
    IN  IF BytesFind(ctx, MarkerVID, 0) = -1 /\ BytesFind(ctx, MarkerLRV, 0) = -1
        THEN <<>>
        ELSE <<Patch("UTF-16LE filename date", offset,
                     Utf16le(SubSeq(wrong_str_, 1, 8)),
                     Utf16le(SubSeq(correct_str_, 1, 8)))>>
             \o (IF ReadAt(data, time_offset, Len(wrong_time_u16)) = wrong_time_u16
                 THEN <<Patch("UTF-16LE filename time", time_offset,
                              wrong_time_u16, correct_time_u16)>>
                 ELSE <<>>)

RECURSIVE Utf16Hits(_, _, _, _)
Utf16Hits(data, hits, wrong_str_, correct_str_) ==
    IF hits = <<>> THEN <<>>
    ELSE Utf16Hit(data, Head(hits), wrong_str_, correct_str_)
             \o Utf16Hits(data, Tail(hits), wrong_str_, correct_str_)

Utf16Locator(data, wrong_str_, correct_str_) ==
    Utf16Hits(data, _find_pattern(data, Utf16le(SubSeq(wrong_str_, 1, 8))),
              wrong_str_, correct_str_)

\* Deduplicate: the first patch of each (offset, type)
RECURSIVE Deduplicate(_, _)
Deduplicate(ps, seen) ==
    IF ps = <<>> THEN <<>>
    ELSE LET key == <<Head(ps).offset, Head(ps).type>>
         IN  IF key \in seen THEN Deduplicate(Tail(ps), seen)
             ELSE <<Head(ps)>> \o Deduplicate(Tail(ps), seen \cup {key})

LengthMismatch == "varint length mismatch"

\* patch_file up to its deduplicated list: [err, patches]
PlanPatches(data, wrong_str_, correct_str_) ==
    LET wrong_dt   == _parse_ts(wrong_str_)
        correct_dt == _parse_ts(correct_str_)
    IN  IF wrong_dt.err \/ correct_dt.err
        THEN Raised("ValueError: day is out of range for month")
        ELSE
        LET delta_sec      == BigDiff(correct_dt.epoch, wrong_dt.epoch)
            delta_ms       == Signed(delta_sec.neg, BigMul(delta_sec.mag, 1000))
            mp4            == Mp4Locator(data, delta_sec)
            wrong_varint   == _encode_varint(Dec(wrong_str_))
            correct_varint == _encode_varint(Dec(correct_str_))
            wrong_epoch_ms == BigMul(wrong_dt.epoch, 1000)
            gps            == GpsLocator(data, wrong_epoch_ms, delta_ms)
        IN  IF mp4.err # "none" THEN mp4
            ELSE IF Len(wrong_varint) # Len(correct_varint) THEN Raised(LengthMismatch)
            ELSE IF gps.err # "none" THEN gps
            ELSE Found(Deduplicate(
                     mp4.patches
                         \o ProtobufLocator(data, wrong_varint, correct_varint)
                         \o gps.patches
                         \o AsciiLocator(data, wrong_str_, correct_str_)
                         \o Utf16Locator(data, wrong_str_, correct_str_),
                     {}))

(***************************************************************************)
(* The verified write.                                                     *)
(***************************************************************************)
\* f.seek(offset); f.write(new): overwrites, and extends the file past its end
WriteAt(data, offset, new) ==
    SubSeq(data, 1, offset) \o new \o SubSeq(data, offset + Len(new) + 1, Len(data))

\* a writer that leaves the file position where its read ended
WriteOffsetNoSeek(offset, old) == offset + Len(old)

\* where _patch_write writes after its read: it seeks back to offset
WriteOffset(offset, old) == offset

\* a writer that does not compare what it read
PatchWriteUnverified(data, offset, old, new) ==
    [ok |-> TRUE, data |-> WriteAt(data, offset, new)]

\* _patch_write: [ok, data], the value returned and the file after it
_patch_write(data, offset, old, new) ==
    IF ReadAt(data, offset, Len(old)) # old
    THEN [ok |-> FALSE, data |-> data]
    ELSE [ok |-> TRUE, data |-> WriteAt(data, WriteOffset(offset, old), new)]

(***************************************************************************)
(* The inputs.  The encodings of the timestamps are written out as the     *)
(* bytes a camera file holds: varint is the protobuf creation_time, mp4    *)
(* the seconds since 1904 (mp4later one minute on), gps an epoch-ms        *)
(* 1.5 s after the timestamp, gpsfar one two days after it, gpspad the gps *)
(* value in a varint padded with a zero group.  T7 names a day that does   *)
(* not exist (validate_timestamp accepts it).                              *)
(***************************************************************************)
T1 ==
    [str |-> <<2, 0, 2, 6, 0, 1, 0, 3, 1, 9, 4, 6, 5, 6>>,
     varint |-> <<160, 144, 132, 226, 210, 205, 4>>,
     mp4 |-> <<229, 127, 34, 176>>,
     mp4later |-> <<229, 127, 34, 236>>,
     gps |-> <<220, 162, 152, 171, 184, 51>>,
     gpsfar |-> <<128, 135, 203, 253, 184, 51>>,
     gpspad |-> <<220, 162, 152, 171, 184, 179, 0>>]

T2 ==
    [str |-> <<2, 0, 2, 6, 0, 2, 1, 5, 1, 4, 3, 8, 0, 0>>,
     varint |-> <<248, 250, 180, 151, 211, 205, 4>>,
     mp4 |-> <<229, 183, 138, 200>>,
     mp4later |-> <<229, 183, 139, 4>>,
     gps |-> <<156, 222, 242, 141, 198, 51>>,
     gpsfar |-> <<192, 194, 165, 224, 198, 51>>,
     gpspad |-> <<156, 222, 242, 141, 198, 179, 0>>]

T3 == [str |-> <<2, 0, 2, 6, 0, 1, 0, 3, 2, 0, 4, 6, 5, 6>>]

T4 ==
    [str |-> <<2, 0, 0, 0, 0, 1, 0, 1, 0, 0, 0, 0, 0, 0>>,
     varint |-> <<192, 198, 169, 151, 138, 198, 4>>,
     mp4 |-> <<180, 146, 244, 0>>,
     mp4later |-> <<180, 146, 244, 60>>,
     gps |-> <<220, 227, 190, 214, 198, 27>>,
     gpsfar |-> <<128, 200, 241, 168, 199, 27>>,
     gpspad |-> <<220, 227, 190, 214, 198, 155, 0>>]

T5 == [str |-> <<2, 0, 9, 9, 1, 2, 3, 1, 2, 3, 5, 9, 5, 9>>]

T6 ==
    [str |-> <<2, 0, 2, 6, 0, 1, 0, 3, 2, 0, 2, 6, 0, 1>>,
     varint |-> <<169, 206, 132, 226, 210, 205, 4>>,
     mp4 |-> <<229, 127, 43, 217>>,
     mp4later |-> <<229, 127, 44, 21>>,
     gps |-> <<132, 179, 167, 172, 184, 51>>,
     gpsfar |-> <<168, 151, 218, 254, 184, 51>>,
     gpspad |-> <<132, 179, 167, 172, 184, 179, 0>>]

T7 ==
    [str |-> <<2, 0, 2, 6, 0, 2, 3, 1, 0, 0, 0, 0, 0, 0>>,
     varint |-> <<192, 223, 252, 158, 211, 205, 4>>,
     mp4 |-> <<229, 127, 34, 176>>,
     mp4later |-> <<229, 127, 34, 236>>,
     gps |-> <<220, 162, 152, 171, 184, 51>>,
     gpsfar |-> <<128, 135, 203, 253, 184, 51>>,
     gpspad |-> <<220, 162, 152, 171, 184, 179, 0>>]

\* (wrong, correct) as main hands them to patch_file
Pairs == {<<T1, T2>>, <<T2, T1>>, <<T4, T5>>, <<T6, T3>>, <<T7, T2>>}

Atom(tag, version, creation, modification) ==
    tag \o <<version, 0, 0, 0>> \o creation \o modification

Mvhd == <<109, 118, 104, 100>>

Tkhd == <<116, 107, 104, 100>>

Mdhd == <<109, 100, 104, 100>>

\* the pieces a file is made of, for the wrong timestamp w
Segments(w) ==
    << Mvhd,                                            \* a tag and nothing else
       Atom(Mvhd, 0, w.mp4, w.mp4later),
       \* version 1, and created 1999-06-01
       Atom(Mvhd, 1, w.mp4, w.mp4) \o Atom(Mvhd, 0, <<179, 120, 211, 0>>, w.mp4),
       Atom(Tkhd, 0, <<255, 206, 221, 128>>, w.mp4),    \* created 2039-12-31
       Atom(Mdhd, 0, w.mp4, <<0, 0, 0, 0>>),            \* modification unset
       \* an atom whose modification field begins a creation_time field
       Mvhd \o <<0, 0, 0, 0>> \o w.mp4 \o <<56>> \o w.varint,
       <<56>> \o w.varint,
       <<160, 2>> \o w.gps,
       <<160, 2>> \o w.gpsfar \o <<160, 2>> \o w.gpspad,
       \* <date>_<time> run into <day>_<time>
       Ascii(SubSeq(w.str, 1, 8)) \o <<95>> \o Ascii(SubSeq(w.str, 9, 14))
           \o Ascii(SubSeq(w.str, 7, 8)) \o <<95>> \o Ascii(SubSeq(w.str, 9, 14)),
       \* VID_<date>_<time> in UTF-16LE
       <<86, 0, 73, 0, 68, 0, 95, 0>> \o Utf16le(SubSeq(w.str, 1, 8)) \o <<95, 0>>
           \o Utf16le(SubSeq(w.str, 9, 14)),
       \* LRV_<date>_000000 and IMG_<date>_<time> in UTF-16LE
       <<76, 0, 82, 0, 86, 0, 95, 0>> \o Utf16le(SubSeq(w.str, 1, 8)) \o <<95, 0>>
           \o Utf16le(<<0, 0, 0, 0, 0, 0>>)
           \o <<73, 0, 77, 0, 71, 0, 95, 0>> \o Utf16le(SubSeq(w.str, 1, 8)) \o <<95, 0>>
           \o Utf16le(SubSeq(w.str, 9, 14)),
       \* a whole file: an atom, creation_time, first_gps_timestamp, both names
       Atom(Mvhd, 0, w.mp4, w.mp4later) \o <<56>> \o w.varint \o <<160, 2>> \o w.gps
           \o Ascii(SubSeq(w.str, 1, 8)) \o <<95>> \o Ascii(SubSeq(w.str, 9, 14))
           \o <<86, 0, 73, 0, 68, 0, 95, 0>> \o Utf16le(SubSeq(w.str, 1, 8))
           \o <<95, 0>> \o Utf16le(SubSeq(w.str, 9, 14)) >>

\* the number of pieces of a file
MaxSegments == 2

\* the number of times the tool is run on a file
MaxRuns == 2

RECURSIVE Flatten(_)
Flatten(ss) == IF ss = <<>> THEN <<>> ELSE Head(ss) \o Flatten(Tail(ss))

\* a file is up to MaxSegments pieces, in the order of the list (a piece may repeat)
Files(w) ==
    { Flatten([i \in DOMAIN s |-> Segments(w)[s[i]]]) :
        s \in UNION { { q \in [1..n -> DOMAIN Segments(w)] :
                          \A i \in 1..(n - 1) : q[i] <= q[i + 1] } :
                      n \in 1..MaxSegments } }

(***************************************************************************)
(* patch_file and main's loop over the files, for one file.                *)
(***************************************************************************)
ScanIdle ==
    /\ s_data = <<>> /\ s_pattern = <<>> /\ s_chunk = 0
    /\ file_pos = 0 /\ prev_tail = <<>> /\ offsets = <<>> /\ s_pc = "idle"

\* main has validated the two timestamps and found them different
Init ==
    /\ \E p \in Pairs :
          /\ wrong_str = p[1].str
          /\ correct_str = p[2].str
          /\ file \in Files(p[1])
    /\ validate_timestamp(wrong_str)
    /\ validate_timestamp(correct_str)
    /\ wrong_str # correct_str
    /\ file0 = file
    /\ dry_run \in BOOLEAN
    /\ pc = "call"
    /\ patches = <<>> /\ printed = <<>> /\ idx = 0 /\ ok = TRUE /\ wrote = <<>>
    /\ result = "none" /\ message = "" /\ report = ""
    /\ run = 1
    /\ tampered = FALSE
    /\ ScanIdle

Listing(ps) == [i \in DOMAIN ps |-> <<ps[i].type, ps[i].offset>>]

\* a patch_file that does not look at dry_run
WritesAlways(dry) == TRUE

\* whether patch_file goes on to write: it does unless dry_run
Writes(dry) == ~dry

\* patch_file from its first line to the write loop
PatchFile ==
    /\ pc = "call"
    /\ LET plan == PlanPatches(file, wrong_str, correct_str)
       IN  /\ patches' = plan.patches
           /\ wrote' = [i \in DOMAIN plan.patches |-> "pending"]
           /\ idx' = 1
           /\ ok' = TRUE
           /\ IF plan.err = LengthMismatch
              THEN /\ result' = "False" /\ pc' = "returned" /\ printed' = <<>>
                   /\ message' = "ERROR: varint length mismatch, cannot patch in-place."
              ELSE IF plan.err # "none"
              THEN /\ result' = plan.err /\ pc' = "returned" /\ printed' = <<>>
                   /\ message' = "Traceback"
              ELSE IF plan.patches = <<>>
              THEN /\ result' = "False" /\ pc' = "returned" /\ printed' = <<>>
                   /\ message' = "No patchable timestamps found."
              ELSE IF ~Writes(dry_run)
              THEN /\ result' = "True" /\ pc' = "returned"
                   /\ printed' = Listing(plan.patches)
                   /\ message' = "dry run - no changes written"
              ELSE /\ result' = "none" /\ pc' = "write"
                   /\ printed' = Listing(plan.patches)
                   /\ message' = ""
    /\ UNCHANGED <<file, file0, wrong_str, correct_str, dry_run, report, run, tampered>>
    /\ UNCHANGED scanVars

\* ok after one more _patch_write
NextOk(was, this) == was /\ this

\* one pass of the write loop
PatchWrite ==
    /\ pc = "write"
    /\ idx <= Len(patches)
    /\ LET p == patches[idx]
           w == _patch_write(file, p.offset, p.old, p.new)
       IN  /\ file' = w.data
           /\ ok' = NextOk(ok, w.ok)
           /\ wrote' = [wrote EXCEPT ![idx] = IF w.ok THEN "written" ELSE "mismatch"]
           /\ message' = IF w.ok THEN message ELSE "ERROR: unexpected bytes at offset"
    /\ idx' = idx + 1
    /\ UNCHANGED <<file0, wrong_str, correct_str, dry_run, pc, patches, printed,
                   result, report, run, tampered>>
    /\ UNCHANGED scanVars

\* the end of the write loop
PatchReturn ==
    /\ pc = "write"
    /\ idx > Len(patches)
    /\ result' = IF ok THEN "True" ELSE "False"
    /\ message' = IF ok THEN "patches applied." ELSE message
    /\ pc' = "returned"
    /\ UNCHANGED <<file, file0, wrong_str, correct_str, dry_run, patches, printed,
                   idx, ok, wrote, report, run, tampered>>
    /\ UNCHANGED scanVars

\* main prints the file's outcome; an exception of patch_file ends the program
Outcome(res) ==
    IF res = "True" THEN "DONE" ELSE IF res = "False" THEN "FAILED" ELSE "Traceback"

Report ==
    /\ pc = "returned"
    /\ report' = Outcome(result)
    /\ pc' = "reported"
    /\ UNCHANGED <<file, file0, wrong_str, correct_str, dry_run, patches, printed,
                   idx, ok, wrote, result, message, run, tampered>>
    /\ UNCHANGED scanVars

\* the tool is run again on a file it has patched, with the same two timestamps
Rerun ==
    /\ pc = "reported"
    /\ report = "DONE"
    /\ ~dry_run
    /\ ~tampered
    /\ run < MaxRuns
    /\ run' = run + 1
    /\ file0' = file
    /\ dry_run' \in BOOLEAN
    /\ pc' = "call"
    /\ patches' = <<>> /\ printed' = <<>> /\ idx' = 0 /\ ok' = TRUE /\ wrote' = <<>>
    /\ result' = "none" /\ message' = "" /\ report' = ""
    /\ tampered' = FALSE
    /\ UNCHANGED <<file, wrong_str, correct_str>>
    /\ UNCHANGED scanVars

\* somebody else changes a byte a patch is yet to verify while patch_file
\* writes (the write loop reads no other byte of the file)
Tamper ==
    /\ pc = "write"
    /\ ~tampered
    /\ \E k \in idx..Len(patches) :
          file' = [file EXCEPT ![patches[k].offset + 1] = (@ + 1) % 256]
    /\ tampered' = TRUE
    /\ UNCHANGED <<file0, wrong_str, correct_str, dry_run, pc, patches, printed,
                   idx, ok, wrote, result, message, report, run>>
    /\ UNCHANGED scanVars

Next == PatchFile \/ PatchWrite \/ PatchReturn \/ Report \/ Rerun \/ Tamper

Spec == Init /\ [][Next]_vars

(***************************************************************************)
(* _find_pattern on its own, chunk by chunk, for small files, patterns and *)
(* chunk sizes (the chunk size is at least the pattern's length, as the    *)
(* 64 MiB of the code is for every pattern patch_file searches).           *)
(***************************************************************************)
MaxScanLen == 6

MaxPatternLen == 2

MaxChunk == 3

ScanBytes == {0, 1}

SeqsUpTo(S, lo, hi) == UNION { [1..n -> S] : n \in lo..hi }

PatchIdle ==
    /\ file = <<>> /\ file0 = <<>> /\ wrong_str = <<>> /\ correct_str = <<>>
    /\ dry_run = FALSE /\ pc = "idle" /\ patches = <<>> /\ printed = <<>>
    /\ idx = 0 /\ ok = TRUE /\ wrote = <<>> /\ result = "none" /\ message = ""
    /\ report = "" /\ run = 0 /\ tampered = FALSE

InitScan ==
    /\ PatchIdle
    /\ s_data \in SeqsUpTo(ScanBytes, 0, MaxScanLen)
    /\ s_pattern \in SeqsUpTo(ScanBytes, 1, MaxPatternLen)
    /\ s_chunk \in Len(s_pattern)..MaxChunk
    /\ file_pos = 0
    /\ prev_tail = <<>>
    /\ offsets = <<>>
    /\ s_pc = "scan"

\* the outer loop reads a chunk and searches it
ScanRead ==
    /\ s_pc = "scan"
    /\ ReadAt(s_data, file_pos, s_chunk) # <<>>
    /\ LET st == ScanChunk([file_pos |-> file_pos, prev_tail |-> prev_tail,
                            offsets |-> offsets], s_data, s_pattern, s_chunk)
       IN  /\ file_pos' = st.file_pos
           /\ prev_tail' = st.prev_tail
           /\ offsets' = st.offsets
    /\ UNCHANGED <<s_data, s_pattern, s_chunk, s_pc>>
    /\ UNCHANGED patchVars

\* the read returns nothing: the end of the file
ScanEnd ==
    /\ s_pc = "scan"
    /\ ReadAt(s_data, file_pos, s_chunk) = <<>>
    /\ s_pc' = "done"
    /\ UNCHANGED <<s_data, s_pattern, s_chunk, file_pos, prev_tail, offsets>>
    /\ UNCHANGED patchVars

NextScan == ScanRead \/ ScanEnd

SpecScan == InitScan /\ [][NextScan]_vars

(***************************************************************************)
(* The claims.                                                             *)
(***************************************************************************)
\* the offsets at which the pattern occurs in the data
Occurrences(data, pattern) ==
    { i \in 0..(Len(data) - Len(pattern)) :
        \A j \in 1..Len(pattern) : data[i + j] = pattern[j] }

Count(s, x) == Cardinality({ k \in DOMAIN s : s[k] = x })

\* the occurrence at o ends at the end of a chunk that is not the last one read
EndsAtBoundary(o) ==
    /\ (o + Len(s_pattern)) % s_chunk = 0
    /\ o + Len(s_pattern) < Len(s_data)

\* the occurrence at o has bytes on both sides of a chunk boundary
Straddles(o) ==
    \E b \in 1..Len(s_data) : b % s_chunk = 0 /\ o < b /\ b < o + Len(s_pattern)

\* C5 as stated: _find_pattern returns the offsets of the occurrences of the
\* pattern in ascending order, each occurrence exactly once, wherever it lies
\* relative to a window boundary.
C5_EachOccurrenceOnce ==
    s_pc = "done" =>
        /\ \A k \in 1..(Len(offsets) - 1) : offsets[k] < offsets[k + 1]
        /\ { offsets[k] : k \in DOMAIN offsets } = Occurrences(s_data, s_pattern)

\* C5 as amended: _find_pattern returns offsets of occurrences only, in
\* non-decreasing order, every occurrence among them; an occurrence is listed
\* once, except that one ending exactly at a window boundary with data after it
\* is listed twice.
C5_EveryOccurrenceFound ==
    s_pc = "done" =>
        /\ \A k \in 1..(Len(offsets) - 1) : offsets[k] <= offsets[k + 1]
        /\ \A k \in DOMAIN offsets : offsets[k] \in Occurrences(s_data, s_pattern)
        /\ \A o \in Occurrences(s_data, s_pattern) :
              Count(offsets, o) = IF EndsAtBoundary(o) THEN 2 ELSE 1

\* a finished scan with an occurrence across a boundary, one ending at a
\* boundary and two occurrences that overlap
C5_Witness ==
    /\ s_pc = "done"
    /\ \E o \in Occurrences(s_data, s_pattern) : Straddles(o)
    /\ \E o \in Occurrences(s_data, s_pattern) : EndsAtBoundary(o)
    /\ \E o \in Occurrences(s_data, s_pattern) :
          o + 1 \in Occurrences(s_data, s_pattern) /\ Len(s_pattern) > 1

\* the positions (from 1) of the bytes a patch is to replace
Range(p) == (p.offset + 1)..(p.offset + Len(p.old))

Disjoint(ps) ==
    \A j, k \in DOMAIN ps : j # k => Range(ps[j]) \cap Range(ps[k]) = {}

Types(ps) == { ps[k].type : k \in DOMAIN ps }

\* patch_file ran its write loop to the end
WroteAll == pc = "returned" /\ ~dry_run /\ patches # <<>> /\ idx > Len(patches)

\* C1: in the write loop a patch's new bytes are written at its offset only if
\* the len(old) bytes read there just before are the old bytes, and a mismatch
\* writes nothing; every patch of the list is attempted; the result is failure
\* after a mismatch and success only if every patch was written.
C1_VerifiedWrite ==
    /\ [][ (pc = "write" /\ idx' = idx + 1) =>
             LET p == patches[idx]
             IN  IF ReadAt(file, p.offset, Len(p.old)) = p.old
                 THEN /\ file' = WriteAt(file, p.offset, p.new)
                      /\ wrote'[idx] = "written"
                 ELSE /\ file' = file
                      /\ wrote'[idx] = "mismatch" ]_vars
    /\ [](WroteAll =>
             /\ \A k \in DOMAIN patches : wrote[k] # "pending"
             /\ result = "True" <=> \A k \in DOMAIN patches : wrote[k] = "written"
             /\ (\E k \in DOMAIN patches : wrote[k] = "mismatch") => result = "False")

\* one patch failed its verification, one after it was written all the same
C1_Witness ==
    /\ WroteAll
    /\ result = "False"
    /\ \E j, k \in DOMAIN patches :
          j < k /\ wrote[j] = "mismatch" /\ wrote[k] = "written"

\* C2: with nobody else writing, the file keeps its length through patch_file
\* and every byte outside the ranges [offset, offset + len(old)) of the planned
\* patches keeps its value.
C2_Frame ==
    ~tampered =>
        /\ Len(file) = Len(file0)
        /\ \A i \in DOMAIN file0 :
              (\A k \in DOMAIN patches : i \notin Range(patches[k])) => file[i] = file0[i]

\* patches were written, and the file has bytes outside all of them
C2_Witness ==
    /\ WroteAll /\ ~tampered
    /\ result = "True"
    /\ file # file0
    /\ \E i \in DOMAIN file0 : \A k \in DOMAIN patches : i \notin Range(patches[k])

\* C3: every patch any of the five locators emits has old and new bytes of the
\* same length.
C3_SameLength ==
    \A k \in DOMAIN patches : Len(patches[k].old) = Len(patches[k].new)

\* a plan with patches of all five locators
C3_Witness ==
    /\ pc = "write"
    /\ { "mvhd.creation", "mvhd.modification", "protobuf creation_time",
         "first_gps_timestamp", "ASCII filename date", "UTF-16LE filename date",
         "UTF-16LE filename time" } \subseteq Types(patches)

\* C4: patch_file run again with the same two timestamps on a file it has
\* patched finds no patch, reports that there is no patchable timestamp and
\* leaves the file as it is.
C4_SecondRunFindsNothing ==
    (run > 1 /\ pc = "returned") =>
        /\ patches = <<>>
        /\ message = "No patchable timestamps found."
        /\ file = file0

\* C6: a varint after the tag A0 02 becomes a first_gps_timestamp patch only
\* if its value is between 1577836800000 and 1893456000000 and less than 24
\* hours from the wrong timestamp's epoch milliseconds; a value whose shifted
\* encoding has another length is dropped, and patch_file goes on.
WrongEpochMs == BigMul(_parse_ts(wrong_str).epoch, 1000)

DeltaMs ==
    LET d == BigDiff(_parse_ts(correct_str).epoch, _parse_ts(wrong_str).epoch)
    IN  Signed(d.neg, BigMul(d.mag, 1000))

GpsValueAt(off) == _decode_varint(ReadAt(file0, off, 10), 0)

GpsPlausible(v) ==
    /\ BigLe(GpsMin, v) /\ BigLe(v, GpsMax)
    /\ BigLt(BigDiff(v, WrongEpochMs).mag, DayMs)

\* the offsets of the values after a tag that pass the filter and whose
\* shifted value needs another number of bytes
GpsResized ==
    { o + 2 : o \in { h \in Occurrences(file0, <<160, 2>>) :
          LET d == GpsValueAt(h + 2)
          IN  /\ ~d.err
              /\ GpsPlausible(d.value)
              /\ Len(_encode_varint(BigShift(d.value, DeltaMs).mag)) # d.pos } }

GpsPlanned ==
    { patches[k].offset : k \in { j \in DOMAIN patches :
                                    patches[j].type = "first_gps_timestamp" } }

C6_GpsPlausibility ==
    (pc = "returned" /\ ~_parse_ts(wrong_str).err) =>
        /\ \A off \in GpsPlanned :
              /\ ~GpsValueAt(off).err
              /\ GpsPlausible(GpsValueAt(off).value)
              /\ off \notin GpsResized
        /\ GpsResized # {} =>
              /\ message # "ERROR: varint length mismatch, cannot patch in-place."
              /\ result # "ValueError: bytes must be in range(0, 256)"

\* a file with a value that was planned, one too far from the wrong timestamp
\* and one whose shifted encoding has another length, neither of them planned
C6_Witness ==
    /\ pc = "returned" /\ result = "True"
    /\ GpsPlanned # {}
    /\ GpsResized # {} /\ GpsResized \cap GpsPlanned = {}
    /\ \E h \in Occurrences(file0, <<160, 2>>) :
          /\ ~GpsValueAt(h + 2).err
          /\ ~GpsPlausible(GpsValueAt(h + 2).value)
          /\ h + 2 \notin GpsPlanned

\* C7: when the deduplicated list of patches is empty the file is left as it
\* is and the outcome reported for it is a no-op, not a failure.
C7_EmptyPlanIsNoFailure ==
    (pc = "reported" /\ message = "No patchable timestamps found.") =>
        /\ file = file0
        /\ result # "False"
        /\ report # "FAILED"

\* C8: with dry_run, _patch_write is never called and the file stays as it
\* is; the patches listed are the deduplicated list the write loop would take.
C8_DryRun ==
    (dry_run /\ pc \in {"write", "returned", "reported"}) =>
        /\ pc # "write"
        /\ file = file0
        /\ \A k \in DOMAIN wrote : wrote[k] = "pending"
        /\ result \in {"True", "False"} => printed = Listing(patches)

\* a dry run that found patches
C8_Witness ==
    /\ dry_run /\ pc = "returned" /\ result = "True"
    /\ Len(patches) > 1
    /\ message = "dry run - no changes written"

C10_Mp4ShiftFits ==
    pc = "returned" => result # PackError

============================================================================
